---- MODULE Spec2Model ----
(***************************************************************************)
(* A model of the constraint-solving core of canrun: logic values, the     *)
(* State (substitution, suspended watches, deferred forks), unification,   *)
(* the goal algebra, the map_1 projection and the query pipeline.          *)
(***************************************************************************)
EXTENDS Integers, Sequences, FiniteSets, TLC

(***************************************************************************)
(* Bounds of the model.                                                    *)
(***************************************************************************)
\* the properties range over the logic variables 1..NumVars
NumVars == 4
\* the properties range over the ground i32 payloads 1..MaxInt
MaxInt == 2
\* a conjunction drawn freely from the pool has at most MaxGoals goals
MaxGoals == 3
\* a sequence or list given to member, unify or append has at most MaxLen
\* elements
MaxLen == 3

(***************************************************************************)
(* Value model (core/src/value.rs).                                        *)
(***************************************************************************)
\* Val::Var(LVar): an unresolved placeholder, identified by its id
Var(i) == [tag |-> "Var", x |-> i]

\* Val::Resolved(Rc<i32>): a ground value
Resolved(n) == [tag |-> "Resolved", x |-> n]

\* Val::resolved(): Ok(payload) for Resolved, Err(var) for Var
resolved(val) == [ok |-> val.tag = "Resolved", x |-> val.x]

\* Val::Resolved(Rc<Vec<Val<T>>>) / an LVec: a resolved sequence of values
lvec(items) == [tag |-> "Resolved", x |-> items, vec |-> TRUE]

\* the payload type of a resolved value is Vec<Val<T>> rather than i32
IsVec(val) == "vec" \in DOMAIN val

\* Can::Nil of the older engine: the empty list
Nil == [tag |-> "Nil"]

\* Can::Pair { l, r } of the older engine: a list cell
Pair(l, r) == [tag |-> "Pair", l |-> l, r |-> r]

Vars == {Var(i) : i \in 1..NumVars}
Ints == {Resolved(n) : n \in 1..MaxInt}
Vals == Vars \cup Ints

(***************************************************************************)
(* Multi-key watch map.  A sequence of entries [func, vars] in the order   *)
(* the watches were added (watch ids are monotonic).                       *)
(***************************************************************************)
RECURSIVE SelectSeq2(_, _, _)
\* the entries of ws, in order, whose membership of id in vars equals want
SelectSeq2(ws, id, want) ==
    IF ws = <<>> THEN <<>>
    ELSE LET rest == SelectSeq2(Tail(ws), id, want)
         IN IF (id \in Head(ws).vars) = want THEN <<Head(ws)>> \o rest ELSE rest

\* MKMVMap::add(vars, func): file func under every id of vars
WatchAdd(ws, vars, func) == Append(ws, [func |-> func, vars |-> vars])

RECURSIVE Unlink(_, _)
\* the entries of ws, in order, with id struck from the ids of each; an
\* entry left without ids is dropped
Unlink(ws, id) ==
    IF ws = <<>> THEN <<>>
    ELSE LET e == [Head(ws) EXCEPT !.vars = @ \ {id}]
         IN (IF e.vars = {} THEN <<>> ELSE <<e>>) \o Unlink(Tail(ws), id)

\* faulty variant of WatchExtract: the returned watches are removed under id
\* only, and stay reachable under the other ids they were filed under
WatchExtract_KeepOthers(ws, id) ==
    [found |-> SelectSeq2(ws, id, TRUE), rest |-> Unlink(ws, id)]

\* MKMVMap::extract(id): every watch filed under id, removed from the index
\* under all of its ids
WatchExtract(ws, id) ==
    [found |-> SelectSeq2(ws, id, TRUE), rest |-> SelectSeq2(ws, id, FALSE)]

(***************************************************************************)
(* Goal algebra (src/take2/core/goal.rs, core/src/goal).  A goal is a      *)
(* tagged tree; a fork closure is represented by the goal it captured.     *)
(***************************************************************************)
\* unify(a, b)
GUnify(a, b) == [kind |-> "Unify", a |-> a, b |-> b]

\* both(a, b)
GBoth(a, b) == [kind |-> "Both", a |-> a, b |-> b]

\* all(goals)
GAll(goals) == [kind |-> "All", goals |-> goals]

\* either(a, b)
GEither(a, b) == [kind |-> "Either", a |-> a, b |-> b]

\* any(goals)
GAny(goals) == [kind |-> "Any", goals |-> goals]

\* map_1(a, b, a_to_b, b_to_a); f names the pair of closures
map_1(a, b, f) == [kind |-> "Project", a |-> a, b |-> b, f |-> f]

\* member(item, collection): the constraint Member { item, collection }
member(item, collection) ==
    [kind |-> "Member", item |-> item, collection |-> collection]

(***************************************************************************)
(* State (core/src/state.rs).  Option<State> is a record whose ok field    *)
(* tells Some from None.  The fields woken and ran are histories of the    *)
(* state, not fields of the struct: the watches that unify has re-run, and *)
(* the callbacks that State::watch has called, in order.                   *)
(***************************************************************************)
EmptyMap == [i \in {} |-> Var(i)]

\* State::new()
NewState == [ok |-> TRUE, values |-> EmptyMap, watches |-> <<>>, forks |-> <<>>,
             woken |-> <<>>, ran |-> <<>>]

\* None: Option<State> without a state
NoState == [ok |-> FALSE, values |-> EmptyMap, watches |-> <<>>, forks |-> <<>>,
            woken |-> <<>>, ran |-> <<>>]

\* faulty variant of resolve_val: the substitution is never consulted
resolve_val_NoLookup(state, val) == val

\* faulty variant of resolve_val: a variable found by the lookup is looked
\* up in its turn
resolve_val_TwoHops(state, val) ==
    LET w == IF val.tag = "Var" /\ val.x \in DOMAIN state.values
             THEN state.values[val.x]
             ELSE val
    IN IF w.tag = "Var" /\ w.x \in DOMAIN state.values
       THEN state.values[w.x]
       ELSE w

\* State::resolve_val: one lookup in the substitution
resolve_val(state, val) ==
    IF val.tag = "Var" /\ val.x \in DOMAIN state.values
    THEN state.values[val.x]
    ELSE val

\* State::get: the value a variable is bound to, if that value is resolved
StateGet(state, v) ==
    IF v \in DOMAIN state.values
    THEN resolved(state.values[v])
    ELSE [ok |-> FALSE, x |-> v]

\* faulty variant of unify_resolved: any two payloads unify
unify_resolved_AlwaysSuccess(state, a, b) == state

\* UnifyIn for i32 / unify_resolved: payloads are compared
unify_resolved(state, a, b) == IF a.x = b.x THEN state ELSE NoState

\* a_to_b of a map_1 projection; f names the pair of closures
AtoB(f, a) == a + 1

\* b_to_a of a map_1 projection
BtoA(f, b) == IF f = "inc" THEN b - 1 ELSE b

\* Watch::Done(Option<State>)
WatchDone(state) == [done |-> TRUE, state |-> state, vars |-> {}]

\* Watch::Waiting(state, WatchList(vars))
WatchWaiting(state, vars) == [done |-> FALSE, state |-> state, vars |-> vars]

RECURSIVE Unify(_, _, _)
RECURSIVE Watch(_, _)
RECURSIVE WakeAll(_, _)
RECURSIVE Apply(_, _)
RECURSIVE UnifyFold(_, _, _)

\* a.iter().zip(b.iter()).try_fold(state, |s, (a, b)| s.unify(a, b)), for
\* sequences of one length
UnifyFold(state, va, vb) ==
    IF va = <<>> THEN state
    ELSE LET s == Unify(state, Head(va), Head(vb))
         IN IF s.ok THEN UnifyFold(s, Tail(va), Tail(vb)) ELSE NoState

\* faulty variant of unify_resolved_vec: the leaf unifier that compares the
\* lengths and does not look at the elements
unify_resolved_vec_LengthOnly(state, a, b) ==
    IF Len(a.x) = Len(b.x) THEN state ELSE NoState

\* unify_resolved for Vec<Val<T>>
unify_resolved_vec(state, a, b) ==
    IF Len(a.x) = Len(b.x) THEN UnifyFold(state, a.x, b.x) ELSE NoState

\* faulty variant of Map1Attempt: a resolved b is not used to derive a
Map1Attempt_ForwardOnly(p, state) ==
    LET a == resolve_val(state, p.a)
        b == resolve_val(state, p.b)
    IN IF a.tag = "Resolved"
       THEN WatchDone(Unify(state, Resolved(AtoB(p.f, a.x)), b))
       ELSE WatchWaiting(state, {a.x})

\* Map1::attempt
Map1Attempt(p, state) ==
    LET a == resolve_val(state, p.a)
        b == resolve_val(state, p.b)
    IN IF a.tag = "Resolved"
       THEN WatchDone(Unify(state, Resolved(AtoB(p.f, a.x)), b))
       ELSE IF b.tag = "Resolved"
       THEN WatchDone(Unify(state, Resolved(BtoA(p.f, b.x)), a))
       ELSE WatchWaiting(state, {a.x, b.x})

\* resolve_1(val, state): the value after one lookup; Ok(payload) when it is
\* resolved, Err(VarWatch) on the variable it still is otherwise
resolve_1(val, state) == resolve_val(state, val)

\* faulty variant of MemberGoals: the elements are taken last to first
MemberGoals_Reversed(vec, item) ==
    [i \in 1..Len(vec) |-> GUnify(vec[Len(vec) + 1 - i], item)]

\* collection.vec.iter().zip(repeat(item)).map(|(a, b)| unify(a, b))
MemberGoals(vec, item) == [i \in 1..Len(vec) |-> GUnify(vec[i], item)]

\* faulty variant of MemberAttempt: an unresolved collection is a failure
MemberAttempt_NoWait(m, state) ==
    LET collection == resolve_1(m.collection, state)
    IN IF collection.tag = "Resolved"
       THEN WatchDone(Apply(GAny(MemberGoals(collection.x, m.item)), state))
       ELSE WatchDone(NoState)

\* Member::attempt: Ok(|state| Goal::any(goals).apply(state)) is resolved at
\* once on the state; Err(VarWatch) waits on the collection
MemberAttempt(m, state) ==
    LET collection == resolve_1(m.collection, state)
    IN IF collection.tag = "Resolved"
       THEN WatchDone(Apply(GAny(MemberGoals(collection.x, m.item)), state))
       ELSE WatchWaiting(state, {collection.x})

\* the closure handed to State::watch: the attempt of the projection or of
\* the constraint
Attempt(func, state) ==
    IF func.kind = "Member" THEN MemberAttempt(func, state)
    ELSE Map1Attempt(func, state)

\* func(self): the callback is called on the state; the call is recorded in
\* the history of the state it is given
Call(func, state) == Attempt(func, [state EXCEPT !.ran = Append(@, func)])

\* faulty variant of Watch: a waiting watch is not filed
Watch_NotFiled(state, func) ==
    LET w == Call(func, state)
    IN w.state

\* faulty variant of Watch: a callback that asks to wait is called again on
\* the state it returned before it is filed
Watch_CalledTwice(state, func) ==
    LET w == Call(func, state)
    IN IF w.done THEN w.state
       ELSE LET w2 == Call(func, w.state)
            IN IF w2.done THEN w2.state
               ELSE [w2.state EXCEPT !.watches = WatchAdd(@, w2.vars, func)]

\* State::watch
Watch(state, func) ==
    LET w == Call(func, state)
    IN IF w.done THEN w.state
       ELSE [w.state EXCEPT !.watches = WatchAdd(@, w.vars, func)]

\* faulty variant of WakeAll: after a watch has failed the fold goes on
\* with the state it had, and the failure is dropped
WakeAll_PastFailure(state, funcs) ==
    IF funcs = <<>> THEN state
    ELSE LET func == Head(funcs).func
             s == Watch([state EXCEPT !.woken = Append(@, func)], func)
         IN WakeAll(IF s.ok THEN s ELSE state, Tail(funcs))

\* watches.into_iter().try_fold(self, |state, func| state.watch(func))
WakeAll(state, funcs) ==
    IF funcs = <<>> THEN state
    ELSE LET func == Head(funcs).func
             s == Watch([state EXCEPT !.woken = Append(@, func)], func)
         IN IF s.ok THEN WakeAll(s, Tail(funcs)) ELSE NoState

\* State::unify
Unify(state, a0, b0) ==
    LET a == resolve_val(state, a0)
        b == resolve_val(state, b0)
    IN IF a.tag = "Resolved" /\ b.tag = "Resolved"
       THEN IF IsVec(a) THEN unify_resolved_vec(state, a, b)
            ELSE unify_resolved(state, a, b)
       ELSE IF a.tag = "Var" /\ b.tag = "Var" /\ a.x = b.x
       THEN state
       ELSE LET key == IF a.tag = "Var" THEN a.x ELSE b.x
                value == IF a.tag = "Var" THEN b ELSE a
                ex == WatchExtract(state.watches, key)
                s1 == [state EXCEPT !.values = (key :> value) @@ @,
                                    !.watches = ex.rest]
            IN IF ex.found # <<>> THEN WakeAll(s1, ex.found) ELSE s1

\* faulty variant of Fork: the first branch of the fork is applied at once,
\* and the fork is enqueued on the state that gives
Fork_Eager(state, func) ==
    LET first == IF func.kind = "Either" THEN func.a ELSE func.goals[1]
        s == Apply(first, state)
    IN [s EXCEPT !.forks = Append(@, func)]

\* State::fork
Fork(state, func) == [state EXCEPT !.forks = Append(@, func)]

(***************************************************************************)
(* Application of goals and the draining of forks.                         *)
(***************************************************************************)
RECURSIVE AllRun(_, _)

\* Option<State>::into_iter()
OptIter(s) == IF s.ok THEN <<s>> ELSE <<>>

\* goal/both.rs run: a.apply(state).and_then(|s| b.apply(s))
BothRun(state, a, b) ==
    LET s == Apply(a, state)
    IN IF s.ok THEN Apply(b, s) ELSE NoState

\* goal/all.rs run: goals.into_iter().try_fold(state, |s, g| g.apply(s))
AllRun(state, goals) ==
    IF goals = <<>> THEN state
    ELSE LET s == Apply(Head(goals), state)
         IN IF s.ok THEN AllRun(s, Tail(goals)) ELSE NoState

\* Goal::Project: the projection is subscribed as a watch
ApplyProject(state, p) == Watch(state, p)

\* Goal::constraint: the constraint is attempted, and subscribed as a watch
\* when it has to wait
ApplyConstraint(state, c) == Watch(state, c)

\* Goal::apply
Apply(goal, state) ==
    CASE goal.kind = "Unify" -> Unify(state, goal.a, goal.b)
      [] goal.kind = "Both" -> BothRun(state, goal.a, goal.b)
      [] goal.kind = "All" -> AllRun(state, goal.goals)
      [] goal.kind = "Either" -> Fork(state, goal)
      [] goal.kind = "Any" -> Fork(state, goal)
      [] goal.kind = "Project" -> ApplyProject(state, goal)
      [] goal.kind = "Member" -> ApplyConstraint(state, goal)

RECURSIVE AnyFork(_, _)
\* the fork of Any: goals.zip(repeat(s)).flat_map(|(g, s)| g.apply(s))
AnyFork(goals, s) ==
    IF goals = <<>> THEN <<>>
    ELSE OptIter(Apply(Head(goals), s)) \o AnyFork(Tail(goals), s)

\* faulty variant of EitherFork: the second branch is enumerated first
EitherFork_Swapped(a, b, s) == OptIter(Apply(b, s)) \o OptIter(Apply(a, s))

\* faulty variant of EitherFork: the second branch is applied to the state
\* the first branch has changed, not to a clone of the parent state
EitherFork_SharedState(a, b, s) ==
    LET sa == Apply(a, s)
    IN OptIter(sa) \o OptIter(Apply(b, IF sa.ok THEN sa ELSE s))

\* faulty variant of EitherFork: the stream of the first branch is chained
\* once more behind that of the second
EitherFork_Repeated(a, b, s) ==
    OptIter(Apply(a, s)) \o OptIter(Apply(b, s)) \o OptIter(Apply(a, s))

\* the fork of Either: a.apply(s.clone()).chain(b.apply(s))
EitherFork(a, b, s) == OptIter(Apply(a, s)) \o OptIter(Apply(b, s))

\* calling a fork closure on a state
RunFork(fork, s) ==
    IF fork.kind = "Either" THEN EitherFork(fork.a, fork.b, s)
    ELSE AnyFork(fork.goals, s)

RECURSIVE iter_forks(_)
RECURSIVE FlatMapIterForks(_)

\* fork(self).flat_map(|s| s.iter_forks())
FlatMapIterForks(states) ==
    IF states = <<>> THEN <<>>
    ELSE iter_forks(Head(states)) \o FlatMapIterForks(Tail(states))

\* faulty variant of PopFront: the fork enqueued last is popped
PopFront_Back(state) ==
    [fork |-> state.forks[Len(state.forks)],
     state |-> [state EXCEPT !.forks = SubSeq(@, 1, Len(@) - 1)]]

\* forks.pop_front(): the head fork and the state without it
PopFront(state) == [fork |-> Head(state.forks),
                    state |-> [state EXCEPT !.forks = Tail(@)]]

\* State::iter_forks
iter_forks(state) ==
    IF state.forks = <<>> THEN <<state>>
    ELSE LET p == PopFront(state)
         IN FlatMapIterForks(RunFork(p.fork, p.state))

(***************************************************************************)
(* Full resolution (src/old/state.rs) and the query pipeline: from each    *)
(* terminal state the tuple of the out-vars, resolved through the whole    *)
(* chain of bindings; a state in which an out-var stays a variable gives   *)
(* no tuple.                                                               *)
(***************************************************************************)
RECURSIVE checked_resolve(_, _, _)

\* faulty variant of checked_resolve: a variable is looked up once
checked_resolve_OneHop(state, can, history) ==
    IF can.tag = "Var" /\ can.x \in DOMAIN state.values
    THEN [ok |-> TRUE, val |-> state.values[can.x]]
    ELSE [ok |-> TRUE, val |-> can]

\* pair::resolve: both sides are resolved; an error of the left side, else
\* of the right side, is the error of the whole
pair_resolve(state, l, r, history) ==
    LET rl == checked_resolve(state, l, history)
        rr == checked_resolve(state, r, history)
    IN IF ~rl.ok THEN rl
       ELSE IF ~rr.ok THEN rr
       ELSE [ok |-> TRUE, val |-> Pair(rl.val, rr.val)]

\* vec::resolve: the elements are resolved one by one; the first error is
\* the error of the whole
vec_resolve(state, v, history) ==
    LET r == [i \in 1..Len(v) |-> checked_resolve(state, v[i], history)]
        bad == {i \in 1..Len(v) : ~r[i].ok}
    IN IF bad = {}
       THEN [ok |-> TRUE, val |-> lvec([i \in 1..Len(v) |-> r[i].val])]
       ELSE [ok |-> FALSE, val |-> r[CHOOSE i \in bad : \A j \in bad : i <= j].val]

\* faulty variant of checked_resolve: a variable met a second time is the
\* result, not an error
checked_resolve_CycleOk(state, can, history) ==
    IF can.tag = "Var"
    THEN IF can.x \in history
         THEN [ok |-> TRUE, val |-> can]
         ELSE IF can.x \in DOMAIN state.values
         THEN checked_resolve(state, state.values[can.x], history \cup {can.x})
         ELSE [ok |-> TRUE, val |-> can]
    ELSE IF can.tag = "Pair" THEN pair_resolve(state, can.l, can.r, history)
    ELSE IF IsVec(can) THEN vec_resolve(state, can.x, history)
    ELSE [ok |-> TRUE, val |-> can]

\* State::checked_resolve: Ok(value) is [ok |-> TRUE, val |-> value],
\* Err(InfiniteRecursion(lvar)) is [ok |-> FALSE, val |-> Var(lvar)]
checked_resolve(state, can, history) ==
    IF can.tag = "Var"
    THEN IF can.x \in history
         THEN [ok |-> FALSE, val |-> can]
         ELSE IF can.x \in DOMAIN state.values
         THEN checked_resolve(state, state.values[can.x], history \cup {can.x})
         ELSE [ok |-> TRUE, val |-> can]
    ELSE IF can.tag = "Pair" THEN pair_resolve(state, can.l, can.r, history)
    ELSE IF IsVec(can) THEN vec_resolve(state, can.x, history)
    ELSE [ok |-> TRUE, val |-> can]

\* State::resolve
resolve(state, can) == checked_resolve(state, can, {})

\* State::resolve_var
resolve_var(state, key) == resolve(state, Var(key))

RECURSIVE IsGround(_)
\* a resolved value all of whose elements, if it is a sequence, are ground
IsGround(val) ==
    /\ val.tag = "Resolved"
    /\ IsVec(val) => \A i \in 1..Len(val.x) : IsGround(val.x[i])

RECURSIVE Plain(_)
\* the ground form of a ground value that the user gets: the payload of an
\* i32, the sequence of the ground forms of the elements of a sequence
Plain(val) ==
    IF IsVec(val) THEN [i \in 1..Len(val.x) |-> Plain(val.x[i])] ELSE val.x

(***************************************************************************)
(* The older engine (src/old/state.rs, src/goal): a state is a             *)
(* substitution, a goal run on a state gives a stream of states.           *)
(***************************************************************************)
\* State::new() of the older engine; no constraint is ever filed by the
\* goals that are run on it
OldState == [values |-> EmptyMap]

\* State::assign
assign(state, var, value) == [state EXCEPT !.values = (var :> value) @@ @]

RECURSIVE try_unify(_, _, _)

\* pair::unify: the left sides are unified, and the right sides in every
\* state that gives
pair_unify(state, al, ar, bl, br) ==
    LET left == try_unify(state, al, bl)
    IN IF left = <<>> THEN <<>> ELSE try_unify(left[1], ar, br)

\* State::try_unify, with State::unify: an error of resolve is the empty
\* stream
try_unify(state, a_, b_) ==
    LET a == resolve(state, a_)
        b == resolve(state, b_)
    IN IF ~a.ok \/ ~b.ok THEN <<>>
       ELSE IF a.val = b.val THEN <<state>>
       ELSE IF a.val.tag = "Var" THEN <<assign(state, a.val.x, b.val)>>
       ELSE IF b.val.tag = "Var" THEN <<assign(state, b.val.x, a.val)>>
       ELSE IF a.val.tag = "Pair" /\ b.val.tag = "Pair"
       THEN pair_unify(state, a.val.l, a.val.r, b.val.l, b.val.r)
       ELSE <<>>

\* State::unify
unify(state, a, b) == try_unify(state, a, b)

\* equal(a, b)
equal(a, b) == [kind |-> "Equal", a |-> a, b |-> b]

\* with3(|first, rest_of_a, rest_of_c| ...) of append: the closure is kept
\* with what it captures; n tells which three fresh variables it will get
with3(a, b, c, n) == [kind |-> "With3", a |-> a, b |-> b, c |-> c, n |-> n]

\* faulty variant of append: the first branch does not unify b with c
append_NoTail(a, b, c, n) ==
    GEither(equal(a, Nil), with3(a, b, c, n))

\* append(a, b, c)
append(a, b, c, n) ==
    GEither(GBoth(equal(a, Nil), equal(b, c)), with3(a, b, c, n))

\* LVar::new() in the n-th call of with3: its k-th fresh variable
FreshVar(n, k) == Var(20 + 3 * n + k)

\* the goal the closure of with3 builds from its three fresh variables
With3Body(a, b, c, n) ==
    LET first == FreshVar(n, 1)
        rest_of_a == FreshVar(n, 2)
        rest_of_c == FreshVar(n, 3)
    IN GBoth(GBoth(equal(a, Pair(first, rest_of_a)),
                   equal(c, Pair(first, rest_of_c))),
             append(rest_of_a, b, rest_of_c, n + 1))

RECURSIVE run(_, _)
RECURSIVE RunEach(_, _)

\* a.run(state).flat_map(|s| b.run(s)): goal b on every state of a stream
RunEach(goal, states) ==
    IF states = <<>> THEN <<>>
    ELSE run(goal, Head(states)) \o RunEach(goal, Tail(states))

\* Goal::run of the older engine: the stream of states a goal gives
run(goal, state) ==
    CASE goal.kind = "Equal" -> unify(state, goal.a, goal.b)
      [] goal.kind = "Both" -> RunEach(goal.b, run(goal.a, state))
      [] goal.kind = "Either" -> run(goal.a, state) \o run(goal.b, state)
      [] goal.kind = "With3" ->
            run(With3Body(goal.a, goal.b, goal.c, goal.n), state)

\* the out-var resolves to a ground value in the state
Ground(state, v) ==
    resolve_var(state, v).ok /\ IsGround(resolve_var(state, v).val)

RECURSIVE QueryStates(_, _)
\* the answers of the terminal states, in order, duplicates kept
QueryStates(states, outs) ==
    IF states = <<>> THEN <<>>
    ELSE LET s == Head(states)
             rest == QueryStates(Tail(states), outs)
         IN IF \A i \in 1..Len(outs) : Ground(s, outs[i])
            THEN <<[i \in 1..Len(outs) |-> Plain(resolve_var(s, outs[i]).val)]>>
                 \o rest
            ELSE rest

\* the terminal states of a goal: it is applied to a fresh state, which is
\* drained of its forks
Drained(goal) ==
    LET s == Apply(goal, NewState)
    IN IF s.ok THEN iter_forks(s) ELSE <<>>

\* goal.query(outs)
Query(goal, outs) == QueryStates(Drained(goal), outs)

(***************************************************************************)
(* The programs that are run.  x, y, x2, y2 are the logic variables of the *)
(* repository's tests.                                                     *)
(***************************************************************************)
x == Var(1)
y == Var(2)
x2 == Var(3)
y2 == Var(4)

\* the values 1, 2, 3 of the tests
c1 == Resolved(1)
c2 == Resolved(2)
c3 == Resolved(3)

\* unify goals over x, y and the two ground values, in both operand orders
UnifyPool ==
    {GUnify(x, y), GUnify(y, x)}
    \cup {GUnify(v, c) : v \in {x, y}, c \in {c1, c2}}
    \cup {GUnify(c, v) : v \in {x, y}, c \in {c1, c2}}

\* map_1 goals: "inc" is |a| a + 1, |b| b - 1; "skew" is a pair of closures
\* that are not inverse to each other
MapPool == {map_1(x, y, "inc"), map_1(x, y, "skew")}

\* disjunctions
EitherPool == {GEither(GUnify(x, c1), GUnify(x, c2))}

Pool == UnifyPool \cup MapPool \cup EitherPool

\* the sequences of length n over S
SeqsOfLen(S, n) == [1..n -> S]

\* the permutations of a sequence
Perms(seq) ==
    {[i \in 1..Len(seq) |-> seq[f[i]]] : f \in Permutations(1..Len(seq))}

\* conjunctions of at most MaxGoals goals of the pool, in every order
PoolPrograms == UNION {SeqsOfLen(Pool, n) : n \in 0..MaxGoals}

\* a single either / both of two goals of the pool
PairPrograms ==
    {<<GEither(a, b)>> : a \in Pool, b \in Pool}
    \cup {<<GBoth(a, b)>> : a \in Pool, b \in Pool}

\* map.rs tests::should_succeed_forward_multiple_steps
ForwardSteps == <<map_1(x, y2, "inc"), GUnify(x, x2), GUnify(x2, c1), GUnify(y, y2)>>

\* map.rs tests::should_succeed_backward_multiple_steps
BackwardSteps == <<map_1(x, y2, "inc"), GUnify(x, x2), GUnify(y2, c2), GUnify(y, y2)>>

\* map.rs tests::should_fail_multiple_steps
FailSteps == <<map_1(x, y2, "inc"), GUnify(x, x2), GUnify(y2, c3), GUnify(x2, c1),
               GUnify(y, y2)>>

\* the multiple-steps tests, every permutation of each
StepsPrograms == Perms(ForwardSteps) \cup Perms(BackwardSteps) \cup Perms(FailSteps)

\* the variable of the tests that stands for a sequence
xs == Var(11)

\* the value 4 of the tests
c4 == Resolved(4)

\* lvec![1, 2, 3]
list == lvec(<<c1, c2, c3>>)

\* the sequences of at most n elements of S
SeqsUpTo(S, n) == UNION {SeqsOfLen(S, k) : k \in 0..n}

\* member.rs: the doc example and tests::basic_member, for the sequences of
\* at most MaxLen of the values 1 and 2 and for [1, 2, 3]
BasicMember ==
    {<<member(x, lvec(q))>> : q \in SeqsUpTo({c1, c2}, MaxLen)}
    \cup {<<member(x, list)>>}

\* member.rs tests::member_with_conditions
MemberWithConditions == <<GUnify(x, c2), member(x, list)>>

\* member.rs tests::unify_two_contains_1
UnifyTwoContains1 == <<member(c1, xs), member(c1, xs), GUnify(xs, list)>>

\* member.rs tests::unify_two_contains_2
UnifyTwoContains2 == <<member(c1, xs), member(c2, xs), GUnify(xs, list)>>

\* member.rs tests::unify_two_contains_3
UnifyTwoContains3 ==
    <<GEither(member(c1, xs), member(c4, xs)), member(c2, xs), GUnify(xs, list)>>

\* member.rs tests::unify_two_contains_4
UnifyTwoContains4 == <<member(c1, xs), member(c4, xs), GUnify(xs, list)>>

\* a member of a variable and the unify that gives the variable its
\* sequence, for the shorter sequences of the values 1 and 2
MemberOnce ==
    {<<member(c, xs), GUnify(xs, lvec(q))>> :
        c \in {c1, c2}, q \in SeqsUpTo({c1, c2}, MaxLen - 1) \cup {<<c1, c2, c3>>}}

\* the same with the member stated twice
MemberTwice ==
    {<<p[1], p[1], p[2]>> : p \in MemberOnce}

\* the programs with member, in every order of their goals
MemberPrograms ==
    BasicMember
    \cup UNION {Perms(p) : p \in {MemberWithConditions, UnifyTwoContains1,
                                  UnifyTwoContains2, UnifyTwoContains3,
                                  UnifyTwoContains4}}
    \cup UNION {Perms(p) : p \in MemberOnce \cup MemberTwice}

\* the sequences that are unified: each element the value 1 or 2 or the
\* variable y
VecPool == {lvec(q) : q \in SeqsUpTo({c1, c2, y}, MaxLen - 1)}

\* unify/vec.rs tests (succeeds, fails, nested_var): xs is unified with two
\* sequences, or two sequences are unified with each other
VecPrograms ==
    {<<GUnify(xs, a), GUnify(xs, b)>> : a \in VecPool, b \in VecPool}
    \cup {<<GUnify(a, b)>> : a \in VecPool, b \in VecPool}

\* map_1 goals that share variables, and unify goals that bind them
WakePool ==
    {map_1(x, y, "inc"), map_1(y, x2, "inc"), map_1(x2, y, "inc"),
     GUnify(x, x2), GUnify(x, c1), GUnify(x2, c1), GUnify(y, c2)}

\* conjunctions of at most four goals in which a unify wakes suspended
\* map_1 goals
WakePrograms == SeqsUpTo(WakePool, 4)

\* goals that defer forks: disjunctions over x and over y, one nested
DrainPool ==
    {GEither(GUnify(x, c1), GUnify(x, c2)),
     GEither(GUnify(y, c1), GUnify(y, c2)),
     GAny(<<GUnify(x, c1), GUnify(y, c1), GUnify(x, c2)>>),
     GEither(GEither(GUnify(x, c1), GUnify(x, c2)), GUnify(y, c1)),
     GUnify(x, c1)}

\* conjunctions of at most three of them
DrainPrograms == SeqsUpTo(DrainPool, 3)

\* unify goals that build chains of variables (x to y, y to x2, x2 to y2),
\* a unify that binds the head of a chain, and a map_1 over two variables of
\* a chain
ChainPool ==
    {GUnify(x, y), GUnify(y, x2), GUnify(x2, y2), GUnify(x, c1),
     map_1(x2, y, "inc")}

\* conjunctions of at most four of them
ChainPrograms == SeqsUpTo(ChainPool, 4)

Programs ==
    PoolPrograms \cup PairPrograms \cup StepsPrograms \cup MemberPrograms
    \cup VecPrograms \cup WakePrograms \cup DrainPrograms \cup ChainPrograms

(***************************************************************************)
(* The run of one program: all(program) is applied goal by goal to a fresh *)
(* state, and the state it gives is drained of its forks.                  *)
(***************************************************************************)
VARIABLES
    program,    \* the goals of the conjunction, in order
    pc,         \* how many of them have been applied
    prev,       \* the state the last goal was applied to
    st,         \* Option<State>: the state after the goals applied so far
    phase,      \* "apply" while the fold runs, "done" once the forks are drained
    results     \* the terminal states, in the order iter_forks yields them

vars == <<program, pc, prev, st, phase, results>>

Init ==
    /\ program \in Programs
    /\ pc = 0
    /\ prev = NewState
    /\ st = NewState
    /\ phase = "apply"
    /\ results = <<>>

\* faulty variant of FoldContinues: the fold goes on after a goal failed
FoldContinues_PastNone(s, n, goals) == n < Len(goals)

\* try_fold goes on while it holds Some(state) and a goal is left
FoldContinues(s, n, goals) == s.ok /\ n < Len(goals)

\* one step of the fold of all::run: the next goal is applied to the state
ApplyNext ==
    /\ phase = "apply"
    /\ FoldContinues(st, pc, program)
    /\ prev' = st
    /\ st' = Apply(program[pc + 1], st)
    /\ pc' = pc + 1
    /\ UNCHANGED <<program, phase, results>>

\* the fold has ended: the state, if there is one, is drained
Drain ==
    /\ phase = "apply"
    /\ ~FoldContinues(st, pc, program)
    /\ results' = IF st.ok THEN iter_forks(st) ELSE <<>>
    /\ phase' = "done"
    /\ UNCHANGED <<program, pc, prev, st>>

Next == ApplyNext \/ Drain

Spec == Init /\ [][Next]_vars

(***************************************************************************)
(* The run of append on the older engine (append.rs tests::basic_append):  *)
(* the goal is run on a fresh state and its stream of states collected.    *)
(***************************************************************************)
RECURSIVE ListOf(_)
\* the list of the elements of a sequence: Pair::new(e1, Pair::new(e2, ...
\* Can::Nil))
ListOf(seq) == IF seq = <<>> THEN Nil ELSE Pair(Head(seq), ListOf(Tail(seq)))

\* the lists of at most n of the values "h" and "i" of the test, which the
\* model writes 1 and 2
Lists(n) == {ListOf(q) : q \in SeqsUpTo({c1, c2}, n)}

\* append(a, x, c) for ground lists a and c and the variable x
AppendPrograms ==
    {<<append(a, x, c, 0)>> : a \in Lists(MaxLen - 1), c \in Lists(MaxLen)}

InitAppend ==
    /\ program \in AppendPrograms
    /\ pc = 0
    /\ prev = NewState
    /\ st = NewState
    /\ phase = "apply"
    /\ results = <<>>

\* goal.run(state), the stream consumed to its end
RunAppend ==
    /\ phase = "apply"
    /\ pc = 0
    /\ results' = run(program[1], OldState)
    /\ pc' = 1
    /\ phase' = "done"
    /\ UNCHANGED <<program, prev, st>>

NextAppend == RunAppend

SpecAppend == InitAppend /\ [][NextAppend]_vars

(***************************************************************************)
(* The search over goal trees: the run of Spec on programs whose goals are *)
(* trees of unify, both / all, either / any, map_1 and member, disjunctions *)
(* nested in disjunctions and disjunctions without a branch among them.    *)
(* The run is one sequential computation, so a step that can be taken is   *)
(* taken.                                                                  *)
(***************************************************************************)
\* goal trees: disjunctions of two and three branches, nested ones, one
\* without a branch, member over sequences of three, one and no element
TreePool ==
    {GUnify(x, c1),
     GEither(GUnify(x, c1), GUnify(x, c2)),
     GAny(<<GUnify(y, c1), GUnify(y, c2), GUnify(y, c1)>>),
     GAny(<<>>),
     GEither(GAny(<<>>), GUnify(x, c1)),
     GEither(member(x, lvec(<<>>)), GUnify(x, c2)),
     GAny(<<GEither(GUnify(x, c1), GUnify(x, c2)),
            GBoth(GUnify(x, c1), GEither(GUnify(y, c1), GUnify(y, c2)))>>),
     GAll(<<GEither(GUnify(x, c1), GUnify(x, c2)), member(y, list)>>),
     member(x, list),
     member(y, lvec(<<c1>>)),
     map_1(x, y, "inc")}

\* conjunctions of at most two goal trees
TreePrograms == SeqsUpTo(TreePool, 2)

\* the programs of the search: the goal trees, the conjunctions of
\* disjunctions, the programs with member and the multiple-steps tests
SearchPrograms ==
    TreePrograms \cup DrainPrograms \cup PairPrograms \cup MemberPrograms
    \cup StepsPrograms

\* a fresh state, and no goal given yet
InitSearch ==
    /\ program = <<>>
    /\ pc = 0
    /\ prev = NewState
    /\ st = NewState
    /\ phase = "start"
    /\ results = <<>>

\* the goals are given: all(program) is about to be applied
Choose ==
    /\ phase = "start"
    /\ program' \in SearchPrograms
    /\ phase' = "apply"
    /\ UNCHANGED <<pc, prev, st, results>>

NextSearch == Choose \/ ApplyNext \/ Drain

\* a step of the run, told by the position alone: the goals are given, the
\* fold moves to its next goal, or the fold ends and the forks are drained.
\* Every step of NextSearch is one of these, and one of these can be taken
\* exactly while the run is not done, as a step of NextSearch can
Advance ==
    \/ phase = "start" /\ phase' = "apply" /\ pc' = pc
    \/ phase = "apply" /\ phase' = "apply" /\ pc' = pc + 1
    \/ phase = "apply" /\ phase' = "done" /\ pc' = pc

\* the position of the run
position == <<pc, phase>>

\* the run is sequential code that nothing suspends: while it is not done it
\* takes its next step
SpecSearch == InitSearch /\ [][NextSearch]_vars /\ WF_position(Advance)

(***************************************************************************)
(* Substitutions of the older engine built by State::assign, as the tests  *)
(* of src/old/state.rs build them: assign does not look at the bindings    *)
(* the state holds, so chains and cycles of variables arise.               *)
(***************************************************************************)
\* the variable z of tests::value_of_nested
z == Var(3)

\* Can::Val(5) of the tests
c5 == Resolved(5)

\* state.assign(var, value): the variables x, y, z, and as values these
\* variables and 5
AssignPool == {[var |-> v.x, value |-> w] : v \in {x, y, z}, w \in {x, y, z, c5}}

\* sequences of at most MaxGoals calls of assign
AssignPrograms == SeqsUpTo(AssignPool, MaxGoals)

InitAssign ==
    /\ program \in AssignPrograms
    /\ pc = 0
    /\ prev = OldState
    /\ st = OldState
    /\ phase = "apply"
    /\ results = <<>>

\* let state = state.assign(var, value)
AssignNext ==
    /\ phase = "apply"
    /\ pc < Len(program)
    /\ prev' = st
    /\ st' = assign(st, program[pc + 1].var, program[pc + 1].value)
    /\ pc' = pc + 1
    /\ UNCHANGED <<program, phase, results>>

NextAssign == AssignNext

SpecAssign == InitAssign /\ [][NextAssign]_vars

(***************************************************************************)
(* Properties.                                                             *)
(***************************************************************************)
\* the variables bound in a state
Bound(s) == DOMAIN s.values

\* C2 (I-State-1): in every reachable state whose substitution maps v to w,
\* unify(Var(v), b) has the same outcome as unify(w, b): both fail, or both
\* give the same bindings, watches and forks.
C2_UnifyBoundVarAsItsValue ==
    st.ok =>
        \A v \in Bound(st) \cap (1..NumVars), b \in Vals :
            Unify(st, Var(v), b) = Unify(st, st.values[v], b)

\* the terminal states have been collected
Done == phase = "done"

\* the answers of the run for the out-vars outs, in order
Answers(outs) == QueryStates(results, outs)

\* the two conjuncts of the program: of all([a, b]) or of both(a, b)
Conjuncts ==
    IF Len(program) = 2 THEN program
    ELSE IF Len(program) = 1 /\ program[1].kind = "Both"
    THEN <<program[1].a, program[1].b>>
    ELSE <<>>

\* unify(v, c) and unify(c, v)
UnifyEitherWay(v, c) == {GUnify(v, c), GUnify(c, v)}

\* the number of times e occurs in seq
Count(seq, e) == Cardinality({i \in 1..Len(seq) : seq[i] = e})

\* the two sequences hold the same elements the same number of times
SameBag(p, q) ==
    /\ Len(p) = Len(q)
    /\ \A i \in 1..Len(p) : Count(p, p[i]) = Count(q, p[i])

\* C1 (P1, confluence): whatever the order of the goals of a conjunction,
\* all(goals) applied to a fresh state gives the same multiset of answers
\* for the same out-vars.
C1_PermutationsSameAnswers ==
    Done =>
        \A p \in Perms(program) :
            SameBag(Answers(<<1, 2>>), Query(GAll(p), <<1, 2>>))

\* C3: a conjunction that unifies x with y and one of them with a ground
\* value c gives exactly the answer c for x and for y, whatever the order
\* of the conjuncts and of the operands of each unify.
C3_ValuesFlowBetweenVars ==
    Done =>
        \A c \in {c1, c2}, v \in {x, y}, i \in {1, 2} :
            (/\ Conjuncts # <<>>
             /\ Conjuncts[i] \in UnifyEitherWay(x, y)
             /\ Conjuncts[3 - i] \in UnifyEitherWay(v, c))
            => /\ Answers(<<1>>) = << <<c.x>> >>
               /\ Answers(<<2>>) = << <<c.x>> >>

\* C3 witness: both(unify(x, y), unify(1, x)) has run and y is answered 1
C3_Witness ==
    /\ Done
    /\ program = <<GBoth(GUnify(x, y), GUnify(c1, x))>>
    /\ Answers(<<2>>) = << <<1>> >>

\* C4: a variable bound to a ground value does not unify with another ground
\* value: unify(d, v) and unify(e, v) with d # e in one conjunction give no
\* answer, and in every state that binds v to a ground value, unify of v with
\* a different ground value returns no state.
C4_BoundVarRejectsOtherValue ==
    /\ Done =>
          \A v \in {x, y}, c \in {c1, c2}, d \in {c1, c2} :
              (/\ c # d
               /\ Conjuncts # <<>>
               /\ Conjuncts[1] \in UnifyEitherWay(v, c)
               /\ Conjuncts[2] \in UnifyEitherWay(v, d))
              => ~st.ok /\ results = <<>>
    /\ st.ok =>
          \A v \in Bound(st), c \in Ints :
              (/\ st.values[v].tag = "Resolved"
               /\ ~IsVec(st.values[v])
               /\ st.values[v] # c)
              => ~Unify(st, Var(v), c).ok /\ ~Unify(st, c, Var(v)).ok

\* C4 witness: x was bound to 2 when unify(1, x) was applied, and the run of
\* unify(2, x), unify(1, x) ended with no state and no answer
C4_Witness ==
    /\ Done
    /\ program = <<GUnify(c2, x), GUnify(c1, x)>>
    /\ pc = 2
    /\ prev.ok
    /\ prev.values[1] = c2
    /\ ~st.ok
    /\ results = <<>>

\* both outcomes have no state, or both have one and every variable reifies
\* alike in them
SameResolution(s, t) ==
    /\ s.ok = t.ok
    /\ s.ok => \A v \in 1..NumVars :
                  \/ resolve_var(s, v) = resolve_var(t, v)
                  \/ ~Ground(s, v) /\ ~Ground(t, v)

\* C5 (P2, symmetry): in every reachable state unify(a, b) and unify(b, a)
\* both fail or both succeed, and after them every variable resolves to the
\* same value.
C5_UnifySymmetric ==
    st.ok =>
        \A a \in Vals, b \in Vals :
            SameResolution(Unify(st, a, b), Unify(st, b, a))

\* the out-var tuples that are queried
Outs == {<<1>>, <<2>>, <<1, 2>>}

\* C6 (P5): either(g1, g2).query(v) gives the answers of g1.query(v) followed
\* by those of g2.query(v), duplicates kept; the terminal states themselves
\* are those of g1 followed by those of g2.
C6_EitherConcatenates ==
    (Done /\ Len(program) = 1 /\ program[1].kind = "Either") =>
        /\ results = Drained(program[1].a) \o Drained(program[1].b)
        /\ \A outs \in Outs :
               Answers(outs) = Query(program[1].a, outs) \o Query(program[1].b, outs)

\* C6 witness: either(unify(x, 1), unify(x, 2)) has answered 1 then 2
C6_Witness ==
    /\ Done
    /\ program = <<GEither(GUnify(x, c1), GUnify(x, c2))>>
    /\ Answers(<<1>>) = << <<1>>, <<2>> >>

\* the index of the first goal of the program whose application fails, or 0
FirstFailure ==
    LET failing == {i \in 1..Len(program) :
                       ~AllRun(NewState, SubSeq(program, 1, i)).ok}
    IN IF failing = {} THEN 0
       ELSE CHOOSE i \in failing : \A j \in failing : i <= j

\* C7: in all([g1..gn]) and in both(a, b) the goals are applied left to right,
\* each to the state the previous one produced; the first goal that fails is
\* the last one applied and the conjunction then fails.
C7_ConjunctionShortCircuits ==
    /\ pc > 0 => prev.ok /\ st = Apply(program[pc], prev)
    /\ prev = AllRun(NewState, SubSeq(program, 1, pc - 1))
    /\ ~st.ok => pc = FirstFailure
    /\ Done => /\ st.ok <=> FirstFailure = 0
               /\ st.ok => pc = Len(program)
               /\ ~st.ok => results = <<>>
    /\ (pc = 1 /\ program[1].kind = "Both") =>
          LET a == Apply(program[1].a, NewState)
          IN /\ ~a.ok => ~st.ok
             /\ a.ok => st = Apply(program[1].b, a)

\* C7 witness: the second of three goals failed, the third was never applied
C7_Witness ==
    /\ Done
    /\ Len(program) = 3
    /\ pc = 2
    /\ prev.ok
    /\ ~st.ok
    /\ results = <<>>

\* C7 witness for both: the first goal of a both failed
C7_WitnessBoth ==
    /\ Done
    /\ Len(program) = 1
    /\ program[1].kind = "Both"
    /\ ~Apply(program[1].a, NewState).ok
    /\ ~st.ok

\* the closure pairs of the map_1 goals
Closures == {"inc", "skew"}

\* C8: map_1(x, y, a_to_b, b_to_a) in a conjunction with one unify that binds
\* x to a ground value c gives exactly the answer (c, a_to_b(c)); with one
\* that binds y to c it gives exactly (b_to_a(c), c); in either order of the
\* two goals.
C8_MapDerivesBothWays ==
    Done =>
        \A c \in {c1, c2}, f \in Closures, i \in {1, 2} :
            /\ (/\ Len(program) = 2
                /\ program[i] = map_1(x, y, f)
                /\ program[3 - i] \in UnifyEitherWay(x, c))
               => Answers(<<1, 2>>) = << <<c.x, AtoB(f, c.x)>> >>
            /\ (/\ Len(program) = 2
                /\ program[i] = map_1(x, y, f)
                /\ program[3 - i] \in UnifyEitherWay(y, c))
               => Answers(<<1, 2>>) = << <<BtoA(f, c.x), c.x>> >>

\* C8 witness: the suspended map_1 was woken by unify(y, 2) and derived x = 1
C8_Witness ==
    /\ Done
    /\ program = <<map_1(x, y, "inc"), GUnify(y, c2)>>
    /\ Answers(<<1, 2>>) = << <<1, 2>> >>

\* the program is unify of x with c, unify of y with d and map_1(x, y, f),
\* in some order
IsConsistencyProgram(c, d, f) ==
    /\ Len(program) = 3
    /\ \E p \in Permutations(1..3) :
          /\ program[p[1]] \in UnifyEitherWay(x, c)
          /\ program[p[2]] \in UnifyEitherWay(y, d)
          /\ program[p[3]] = map_1(x, y, f)

\* C9 as stated: unify(x, c), unify(y, d) and map_1(x, y, a_to_b, b_to_a) give
\* the single answer (c, d) when a_to_b(c) = d and no answer otherwise, in
\* every order of the three goals.
C9_MapChecksConsistency ==
    Done =>
        \A c \in {c1, c2}, d \in {c1, c2}, f \in Closures :
            IsConsistencyProgram(c, d, f) =>
                Answers(<<1, 2>>) =
                    IF AtoB(f, c.x) = d.x THEN << <<c.x, d.x>> >> ELSE <<>>

\* C9 as amended: the same, for closures that agree on the pair: the single
\* answer (c, d) when a_to_b(c) = d and b_to_a(d) = c, no answer when
\* a_to_b(c) # d and b_to_a(d) # c.
C9_MapChecksConsistencyAmended ==
    Done =>
        \A c \in {c1, c2}, d \in {c1, c2}, f \in Closures :
            IsConsistencyProgram(c, d, f) =>
                /\ (AtoB(f, c.x) = d.x /\ BtoA(f, d.x) = c.x)
                   => Answers(<<1, 2>>) = << <<c.x, d.x>> >>
                /\ (AtoB(f, c.x) # d.x /\ BtoA(f, d.x) # c.x)
                   => Answers(<<1, 2>>) = <<>>

\* C9 witness: the map was suspended first and both unifies passed its check
C9_Witness ==
    /\ Done
    /\ program = <<map_1(x, y, "inc"), GUnify(y, c2), GUnify(x, c1)>>
    /\ Answers(<<1, 2>>) = << <<1, 2>> >>

\* C10: the multiple-steps programs answer (x, y) = (1, 2) when the ground
\* values agree with the map and give no answer when they contradict it, in
\* every order of their goals.
C10_MapThroughChains ==
    Done =>
        /\ program \in Perms(ForwardSteps) \cup Perms(BackwardSteps)
           => Answers(<<1, 2>>) = << <<1, 2>> >>
        /\ program \in Perms(FailSteps) => Answers(<<1, 2>>) = <<>>

\* the variables bound on the way from state s to state t
NewlyBound(s, t) ==
    {v \in DOMAIN t.values :
        v \notin DOMAIN s.values \/ t.values[v] # s.values[v]}

\* the watches re-run on the way from state s to state t, in order
WokenBetween(s, t) == SubSeq(t.woken, Len(s.woken) + 1, Len(t.woken))

\* every watch that state s holds under a variable bound on the way to t has
\* been re-run once on that way: a closure held by n such watches was run
\* n times
WokenExactlyOnce(s, t) ==
    LET bound == NewlyBound(s, t)
        touched == {i \in 1..Len(s.watches) : s.watches[i].vars \cap bound # {}}
        woken == WokenBetween(s, t)
    IN \A i \in touched :
           Cardinality({k \in 1..Len(woken) : woken[k] = s.watches[i].func})
           = Cardinality({j \in touched : s.watches[j].func = s.watches[i].func})

\* C11 (I-State-2): when State::unify succeeds, every watch whose dependency
\* set held a variable bound by the call has been re-run exactly once during
\* the call: for the unify goals of the program and for every unify of two
\* values in a reachable state.
C11_WokenExactlyOnce ==
    /\ (pc > 0 /\ program[pc].kind = "Unify" /\ st.ok)
       => WokenExactlyOnce(prev, st)
    /\ st.ok =>
          \A a \in Vals, b \in Vals :
              Unify(st, a, b).ok => WokenExactlyOnce(st, Unify(st, a, b))

\* C12 (P7): member(x, seq) alone, with x an unbound variable and seq a
\* resolved sequence of n ground elements, answers x with exactly the n
\* elements of seq, in their order, repeated elements repeated.
C12_MemberEnumeratesInOrder ==
    (/\ Done
     /\ Len(program) = 1
     /\ program[1].kind = "Member"
     /\ program[1].item = x
     /\ IsGround(program[1].collection))
    => LET seq == program[1].collection.x
       IN Answers(<<1>>) = [i \in 1..Len(seq) |-> <<seq[i].x>>]

\* C12 witness: member(x, [1, 1, 2]) has answered 1, 1, 2
C12_Witness ==
    /\ Done
    /\ program = <<member(x, lvec(<<c1, c1, c2>>))>>
    /\ Answers(<<1>>) = << <<1>>, <<1>>, <<2>> >>

\* C13: member(item, c) applied while c is an unbound variable returns the
\* state with one more watch, filed under c, and with the same bindings and
\* forks; member(1, x), member(2, x), unify(x, [1, 2, 3]) answers x with
\* exactly [1, 2, 3] and member(1, x), member(4, x), unify(x, [1, 2, 3])
\* gives no answer, in every order of the goals.
C13_MemberWaitsOnCollection ==
    /\ (/\ pc > 0
        /\ program[pc].kind = "Member"
        /\ resolve_val(prev, program[pc].collection).tag = "Var")
       => /\ st.ok
          /\ st.values = prev.values
          /\ st.forks = prev.forks
          /\ st.watches =
                 Append(prev.watches,
                        [func |-> program[pc],
                         vars |-> {resolve_val(prev, program[pc].collection).x}])
    /\ (Done /\ program \in Perms(UnifyTwoContains2))
       => Answers(<<11>>) = << << <<1, 2, 3>> >> >>
    /\ (Done /\ program \in Perms(UnifyTwoContains4))
       => Answers(<<11>>) = <<>>

\* C13 witness: two members were waiting on x when unify(x, [1, 2, 3]) was
\* applied, and the run answered [1, 2, 3]
C13_Witness ==
    /\ Done
    /\ program = UnifyTwoContains2
    /\ pc = 3
    /\ Len(prev.watches) = 2
    /\ st.watches = <<>>
    /\ Answers(<<11>>) = << << <<1, 2, 3>> >> >>

\* the elements of two sequences of one length unified pairwise, left to
\* right, each in the state the previous one gave
Pairwise(s, va, vb) == AllRun(s, [i \in 1..Len(va) |-> GUnify(va[i], vb[i])])

Fails == GUnify(c1, c2)

\* the number of branches of a fork
Branches(fork) == IF fork.kind = "Either" THEN 2 ELSE Len(fork.goals)

\* the fork with every branch but branch i replaced by a goal that fails
OnlyBranch(fork, i) ==
    IF fork.kind = "Either"
    THEN IF i = 1 THEN GEither(fork.a, Fails) ELSE GEither(Fails, fork.b)
    ELSE GAny([j \in 1..Len(fork.goals) |->
                  IF j = i THEN fork.goals[j] ELSE Fails])

RECURSIVE EachBranchAlone(_, _, _)
\* what branches i, i + 1, ... of the fork give on state s, each run without
\* the other branches
EachBranchAlone(fork, s, i) ==
    IF i > Branches(fork) THEN <<>>
    ELSE RunFork(OnlyBranch(fork, i), s) \o EachBranchAlone(fork, s, i + 1)

RECURSIVE IsolatedDrain(_)
RECURSIVE IsolatedDrainAll(_)
\* the terminal states of s when every branch of every fork is run without
\* its sibling branches
IsolatedDrain(s) ==
    IF s.forks = <<>> THEN <<s>>
    ELSE IsolatedDrainAll(
             EachBranchAlone(Head(s.forks), [s EXCEPT !.forks = Tail(@)], 1))

IsolatedDrainAll(states) ==
    IF states = <<>> THEN <<>>
    ELSE IsolatedDrain(Head(states)) \o IsolatedDrainAll(Tail(states))

OutsAll == Outs \cup {<<3>>, <<11>>}

RECURSIVE Chase(_, _, _)
\* n lookups in the substitution, one after the other
Chase(s, val, n) == IF n = 0 THEN val ELSE Chase(s, resolve_val(s, val), n - 1)

RECURSIVE Reified(_, _)
\* the value after full recursive resolution: the chain of bindings is
\* followed to its end and the elements of a sequence are resolved too
Reified(s, val) ==
    LET r == Chase(s, val, Cardinality(DOMAIN s.values) + 1)
    IN IF r.tag = "Resolved" /\ IsVec(r)
       THEN lvec([i \in 1..Len(r.x) |-> Reified(s, r.x[i])])
       ELSE r

RECURSIVE HasVar(_)
\* the value is a variable or a sequence in which one is left
HasVar(val) ==
    \/ val.tag = "Var"
    \/ val.tag = "Resolved" /\ IsVec(val) /\ \E i \in 1..Len(val.x) : HasVar(val.x[i])

RECURSIVE Tuples(_, _)
\* one tuple for each state in which no out-var is left a variable, in the
\* order of the states
Tuples(states, outs) ==
    IF states = <<>> THEN <<>>
    ELSE LET s == Head(states)
             vals == [i \in 1..Len(outs) |-> Reified(s, Var(outs[i]))]
         IN (IF \E i \in 1..Len(outs) : HasVar(vals[i]) THEN <<>>
             ELSE << [i \in 1..Len(outs) |-> Plain(vals[i])] >>)
            \o Tuples(Tail(states), outs)

C18_WaitingWatchGivesNoAnswer ==
    Done =>
        \A k \in 1..Len(results) :
            results[k].watches # <<>> =>
                \A outs \in OutsAll : QueryStates(<<results[k]>>, outs) = <<>>

RECURSIVE DrainFifo(_)
RECURSIVE DrainFifoAll(_)
\* the head fork is run on the state without it and the states it gives are
\* drained in the order given; a state without forks is yielded once
DrainFifo(s) ==
    IF s.forks = <<>> THEN <<s>>
    ELSE DrainFifoAll(RunFork(Head(s.forks), [s EXCEPT !.forks = Tail(@)]))

DrainFifoAll(states) ==
    IF states = <<>> THEN <<>>
    ELSE DrainFifo(Head(states)) \o DrainFifoAll(Tail(states))

\* C19: draining pops the forks from the head of the queue, runs each on the
\* state without it and drains the states it gives in the order given; a
\* state is yielded, once, exactly when its fork queue is empty, and every
\* yielded state has an empty fork queue.  So either over x followed by
\* either over y answers (1,1), (1,2), (2,1), (2,2).
C19_DrainIsFifo ==
    /\ (Done /\ st.ok) => results = DrainFifo(st)
    /\ Done => \A k \in 1..Len(results) : results[k].forks = <<>>
    /\ (st.ok /\ st.forks = <<>>) => iter_forks(st) = <<st>>
    /\ (/\ Done
        /\ program = <<GEither(GUnify(x, c1), GUnify(x, c2)),
                       GEither(GUnify(y, c1), GUnify(y, c2))>>)
       => Answers(<<1, 2>>) = << <<1, 1>>, <<1, 2>>, <<2, 1>>, <<2, 2>> >>

\* C19 witness: two forks were queued and the run answered in FIFO order
C19_Witness ==
    /\ Done
    /\ program = <<GEither(GUnify(x, c1), GUnify(x, c2)),
                   GEither(GUnify(y, c1), GUnify(y, c2))>>
    /\ Len(st.forks) = 2
    /\ Answers(<<1, 2>>) = << <<1, 1>>, <<1, 2>>, <<2, 1>>, <<2, 2>> >>

\* the sequence p with a copy of its element i put in at position j
Inserted(p, i, j) == SubSeq(p, 1, j - 1) \o <<p[i]>> \o SubSeq(p, j, Len(p))

\* the goals of the program that suspend as watches: projections and
\* constraints
Suspending == {i \in 1..Len(program) : program[i].kind \in {"Project", "Member"}}

\* the elements of a sequence
Range(seq) == {seq[k] : k \in 1..Len(seq)}

\* P3 with the answers compared as sequences: a conjunction in which a
\* projection or constraint of the program is stated a second time, at any
\* position, gives the same answers as the program, in the same order and
\* number.
SameProjectionTwiceInOrder ==
    Done =>
        \A i \in Suspending, j \in 1..(Len(program) + 1), outs \in OutsAll :
            Query(GAll(Inserted(program, i, j)), outs) = Answers(outs)

\* the closures of every map_1 projection of the program are inverse to
\* each other
InverseClosures ==
    \A i \in 1..Len(program) : program[i].kind = "Project" => program[i].f = "inc"

\* C16 (P3, watch idempotence): when the closures of its map_1 projections
\* are inverse to each other, a conjunction in which a projection or
\* constraint of the program is stated a second time, at any position,
\* gives the same set of answers as the program.
C16_SameProjectionTwice ==
    (Done /\ InverseClosures) =>
        \A i \in Suspending, j \in 1..(Len(program) + 1), outs \in OutsAll :
            Range(Query(GAll(Inserted(program, i, j)), outs)) = Range(Answers(outs))

RECURSIVE Elems(_)
\* the elements of a ground list
Elems(l) == IF l.tag = "Pair" THEN <<l.l>> \o Elems(l.r) ELSE <<>>

\* sequence p is the beginning of sequence q
IsPrefix(p, q) == Len(p) <= Len(q) /\ SubSeq(q, 1, Len(p)) = p

\* C20 (S7): append(a, x, c), for ground lists a and c, gives exactly one
\* state when a is the beginning of c, and x resolves in it to the rest of
\* c; it gives no state otherwise.  So append([h], x, [h, i]) answers [i],
\* once, and its enumeration ends.
C20_AppendAnswersTheRest ==
    (phase = "done" /\ program[1].kind = "Either") =>
        LET a == Elems(program[1].b.a)
            c == Elems(program[1].b.c)
        IN IF IsPrefix(a, c)
           THEN /\ Len(results) = 1
                /\ resolve_var(results[1], 1) =
                       [ok |-> TRUE, val |-> ListOf(SubSeq(c, Len(a) + 1, Len(c)))]
           ELSE results = <<>>

\* C20 witness: append([h], x, [h, i]) has given one state, in which x is [i]
C20_Witness ==
    /\ phase = "done"
    /\ program = <<append(ListOf(<<c1>>), x, ListOf(<<c1, c2>>), 0)>>
    /\ Len(results) = 1
    /\ resolve_var(results[1], 1).val = ListOf(<<c2>>)

\* the ids of the logic variables of the programs
Ids == (1..NumVars) \cup {xs.x}

\* the watches reachable from the index under id, in the order of filing
Under(ws, id) == SelectSeq2(ws, id, TRUE)

\* C21 (WatchIndex extraction is complete): in every reachable state whose
\* index holds a watch, for every id, extract(id) returns the watches filed under id, and the index
\* it leaves holds, under every id, the watches that were filed under that
\* id and not under the extracted one: no returned watch stays reachable
\* under another of its ids, and no other watch is lost.  So a unify that
\* binds another id in the state left by the extraction, before anything is
\* filed again, re-runs none of the returned watches.
C21_ExtractIsComplete ==
    (st.ok /\ st.watches # <<>>) =>
        \A id \in Ids :
            LET ex == WatchExtract(st.watches, id)
                left == [st EXCEPT !.watches = ex.rest]
            IN /\ ex.found = Under(st.watches, id)
               /\ Under(ex.rest, id) = <<>>
               /\ \A id2 \in Ids :
                      /\ \A k \in 1..Len(Under(ex.rest, id2)) :
                             id \notin Under(ex.rest, id2)[k].vars
                      /\ Len(Under(ex.rest, id2)) =
                             Cardinality({k \in 1..Len(st.watches) :
                                 /\ id2 \in st.watches[k].vars
                                 /\ id \notin st.watches[k].vars})
                      /\ (id2 \notin Bound(st) /\ id2 # id /\ id2 # xs.x) =>
                             LET t == Unify(left, Var(id2), c1)
                             IN t.ok =>
                                 \A k \in 1..Len(ex.found) :
                                     (\A j \in 1..Len(ex.rest) :
                                          ex.rest[j].func # ex.found[k].func)
                                     => \A n \in 1..Len(WokenBetween(left, t)) :
                                            WokenBetween(left, t)[n] # ex.found[k].func

\* C21 witness: a state whose index holds a watch under two ids and another
\* watch under the second of them only; extracting the first id returns
\* the one and leaves the other reachable
C21_Witness ==
    /\ st.ok
    /\ \E id \in Ids, id2 \in Ids :
           LET ex == WatchExtract(st.watches, id)
           IN /\ id # id2
              /\ ex.found # <<>>
              /\ id2 \in ex.found[1].vars
              /\ Under(ex.rest, id2) # <<>>
              /\ Len(Under(st.watches, id2)) > Len(Under(ex.rest, id2))

\* C22 (binding direction): in every reachable state, a unify that succeeds
\* on two distinct unbound variables has bound the left one to the right one
\* and left the right one unbound; a unify of an unbound variable and a
\* ground value, in either operand order, has bound the variable to the
\* value; unify(v, v) gives the state unchanged.  The older engine binds the
\* same way (tests unify_with_self, unify_two_vars, unify_with_value).
C22_BindingDirection ==
    /\ st.ok =>
          /\ \A a \in Vars, b \in Vars :
                 (a # b /\ a.x \notin Bound(st) /\ b.x \notin Bound(st)
                        /\ Unify(st, a, b).ok)
                 => /\ a.x \in Bound(Unify(st, a, b))
                    /\ Unify(st, a, b).values[a.x] = b
                    /\ b.x \notin Bound(Unify(st, a, b))
          /\ \A v \in Vars, c \in Ints :
                 v.x \notin Bound(st) =>
                    /\ Unify(st, v, c).ok => Unify(st, v, c).values[v.x] = c
                    /\ Unify(st, c, v).ok => Unify(st, c, v).values[v.x] = c
          /\ \A v \in Vars : Unify(st, v, v) = st
    /\ unify(OldState, x, x) = <<OldState>>
    /\ unify(OldState, x, y) = <<assign(OldState, x.x, y)>>
    /\ unify(OldState, x, c1) = <<assign(OldState, x.x, c1)>>
    /\ unify(OldState, c1, x) = <<assign(OldState, x.x, c1)>>

\* C22 witness: unify(x, y) has been applied to a state in which neither was
\* bound; x is bound to y, and y is not bound
C22_Witness ==
    /\ pc > 0
    /\ program[pc] = GUnify(x, y)
    /\ x.x \notin Bound(prev) /\ y.x \notin Bound(prev)
    /\ st.ok
    /\ st.values[x.x] = y
    /\ y.x \notin Bound(st)

\* disjunctions to defer: those of the programs, one whose first branch
\* fails, and one whose branches all fail
ForkGoals ==
    {g \in DrainPool \cup EitherPool : g.kind \in {"Either", "Any"}}
    \cup {GEither(GUnify(c1, c2), GUnify(x, c1)),
          GAny(<<GUnify(c1, c2), GUnify(c2, c1)>>)}

\* state t is state s with fork g enqueued at the back and nothing else
\* changed: same substitution, same watch index, no watch re-run
Deferred(s, g, t) ==
    /\ t.ok
    /\ t.forks = Append(s.forks, g)
    /\ t.values = s.values
    /\ t.watches = s.watches
    /\ t.woken = s.woken

\* C23 (deferring is bookkeeping): applying Either or Any to a reachable
\* state, and State::fork on it, succeeds and gives the state with exactly
\* that one fork appended at the back of the queue; the substitution and
\* the watch index are unchanged and nothing has been run, whatever the
\* branches would do.  It holds for the either / any goals of the programs
\* as they are applied.
C23_ForkIsBookkeeping ==
    /\ st.ok => \A g \in ForkGoals :
                    /\ Deferred(st, g, Apply(g, st))
                    /\ Deferred(st, g, Fork(st, g))
    /\ (pc > 0 /\ program[pc].kind \in {"Either", "Any"}) =>
          Deferred(prev, program[pc], st)

\* C23 witness: an either or any has been applied to a state that had
\* bindings and a fork in its queue; the queue has grown by that fork
C23_Witness ==
    /\ pc > 0
    /\ program[pc].kind \in {"Either", "Any"}
    /\ prev.forks # <<>>
    /\ Bound(prev) # {}
    /\ st.ok
    /\ Len(st.forks) = Len(prev.forks) + 1
    /\ st.forks[Len(st.forks)] = program[pc]

\* projections and constraints to subscribe: those of the programs, and
\* others over the same variables
WatchFuncs ==
    MapPool
    \cup {map_1(y, x2, "inc"), map_1(x, c2, "inc")}
    \cup {member(c1, xs), member(x, list)}

\* the callbacks that State::watch has called on the way from state s to
\* state t, in order
CalledBetween(s, t) == SubSeq(t.ran, Len(s.ran) + 1, Len(t.ran))

\* t is what State::watch owes for callback func on state s: the callback
\* has been called once on s.  If it was done, t is its outcome, and that
\* outcome does not hold the callback any more than the callback's own
\* result did; the only further calls are those of the watches that the
\* outcome's bindings have woken.  If it asked to wait, t is s with the
\* callback filed last under every variable it named, and with the same
\* substitution and forks.
WatchedOnce(s, func, t) ==
    LET w == Attempt(func, s)
        entry == [func |-> func, vars |-> w.vars]
    IN IF w.done
       THEN /\ t.ok = w.state.ok
            /\ t.ok =>
                  /\ t.values = w.state.values
                  /\ t.forks = w.state.forks
                  /\ t.watches = w.state.watches
                  /\ CalledBetween(s, t) = <<func>> \o WokenBetween(s, t)
       ELSE /\ t.ok
            /\ t.values = s.values
            /\ t.forks = s.forks
            /\ t.woken = s.woken
            /\ CalledBetween(s, t) = <<func>>
            /\ w.vars # {}
            /\ t.watches = Append(s.watches, entry)
            /\ \A id \in Ids :
                   Under(t.watches, id) =
                       IF id \in w.vars THEN Append(Under(s.watches, id), entry)
                       ELSE Under(s.watches, id)

\* state s just after unify has bound the unbound variable id to the
\* resolved operand val and extracted the watches filed under id, before
\* any of them is re-run
JustBound(s, id, val) ==
    [s EXCEPT !.values = (id :> val) @@ @,
              !.watches = WatchExtract(@, id).rest]

\* C24 (State::watch): in every reachable state, for every projection and
\* constraint, State::watch calls the callback once; a Done outcome, state
\* or failure, is adopted and the callback is not stored; a Waiting
\* callback is filed under every variable of its declared set and the
\* state is otherwise unchanged.  The same holds when unify re-runs a watch
\* it has just extracted: one that waits again is filed afresh, last in
\* the index, under the set it now declares.
C24_WatchRunsOnce ==
    st.ok =>
        /\ \A func \in WatchFuncs : WatchedOnce(st, func, Watch(st, func))
        /\ st.watches # <<>> =>
              \A id \in (1..NumVars) \ Bound(st) :
                  \A val \in Vals \ {Var(id)}, k \in 1..Len(Under(st.watches, id)) :
                      LET func == Under(st.watches, id)[k].func
                          s1 == JustBound(st, id, resolve_val(st, val))
                      IN WatchedOnce(s1, func, Watch(s1, func))

\* C24 witness: a unify has re-run a watch that was filed under the
\* variable it bound; the watch waits again and is filed under another set
\* of variables
C24_Witness ==
    /\ pc > 0
    /\ program[pc].kind = "Unify"
    /\ st.ok
    /\ \E i \in 1..Len(prev.watches), j \in 1..Len(st.watches) :
           /\ prev.watches[i].func = st.watches[j].func
           /\ prev.watches[i].vars # st.watches[j].vars
           /\ WokenBetween(prev, st) = <<prev.watches[i].func>>
           /\ CalledBetween(prev, st) = <<prev.watches[i].func>>

\* the state of the fold over the extracted watches after the first k of
\* them
AfterWoken(s1, found, k) == WakeAll(s1, SubSeq(found, 1, k))

\* watch k of the extracted list concludes failure when its turn comes: the
\* fold has a state after the k - 1 before it, and State::watch on that
\* state gives none
FailsAt(s1, found, k) ==
    LET s == AfterWoken(s1, found, k - 1)
        func == found[k].func
    IN /\ s.ok
       /\ ~Watch([s EXCEPT !.woken = Append(@, func)], func).ok

\* C25 (failure of a woken watch fails the unify): in every reachable
\* state, when a unify binds an unbound variable and a watch extracted for
\* it concludes failure, the unify gives no state, and its outcome is that
\* of the fold cut after the failing watch: the watches behind it in the
\* extracted list are not run.
C25_WokenFailureFailsUnify ==
    (st.ok /\ st.watches # <<>>) =>
        \A id \in (1..NumVars) \ Bound(st) : \A val \in Vals \ {Var(id)} :
            LET found == WatchExtract(st.watches, id).found
                s1 == JustBound(st, id, resolve_val(st, val))
            IN \A k \in 1..Len(found) :
                   (resolve_val(st, val) # Var(id) /\ FailsAt(s1, found, k)) =>
                       /\ ~Unify(st, Var(id), val).ok
                       /\ resolve_val(st, val).tag = "Resolved"
                              => ~Unify(st, val, Var(id)).ok
                       /\ \A n \in k..Len(found) : ~AfterWoken(s1, found, n).ok

\* C25 witness: a unify of the program bound a variable under which three
\* watches were filed; the second of them failed, and the unify gave no
\* state
C25_Witness ==
    /\ pc > 0
    /\ program[pc].kind = "Unify"
    /\ prev.ok
    /\ ~st.ok
    /\ program[pc].a.tag = "Var"
    /\ program[pc].a.x \in (1..NumVars) \ Bound(prev)
    /\ LET id == program[pc].a.x
           found == WatchExtract(prev.watches, id).found
           s1 == JustBound(prev, id, program[pc].b)
       IN /\ Len(found) = 3
          /\ FailsAt(s1, found, 2)

\* C26 (State::resolve_val is a single step): in every reachable state,
\* resolve_val of a bound variable is the value the substitution holds for
\* it, as it stands, even when that value is a variable that is bound
\* itself; resolve_val of an unbound variable or of a resolved value is the
\* argument; a resolved sequence comes back with its elements as they are,
\* bound variables among them.
C26_ResolveValSingleStep ==
    st.ok =>
        /\ \A val \in Vals \cup {xs} :
               resolve_val(st, val) =
                   IF val.tag = "Var" /\ val.x \in Bound(st)
                   THEN st.values[val.x]
                   ELSE val
        /\ \A vec \in VecPool \cup {lvec(<<x, x2>>), list} :
               resolve_val(st, vec) = vec

\* C26 witness: a state in which a variable is bound to a variable that is
\* bound to a ground value: resolve_val gives the variable, not the value;
\* and a sequence with a bound variable as an element comes back unchanged
C26_Witness ==
    /\ st.ok
    /\ \E v \in Bound(st), w \in Bound(st) :
           /\ st.values[v] = Var(w)
           /\ st.values[w] \in Ints
           /\ resolve_val(st, Var(v)) = Var(w)
           /\ resolve_val(st, lvec(<<Var(v), Var(w)>>)) = lvec(<<Var(v), Var(w)>>)

\* the end of the chain of bindings that starts at val, when the chain has
\* one: what is left of val after as many lookups as there are bindings
ChainEnd(s, val) == Chase(s, val, Cardinality(DOMAIN s.values))

\* the chain of bindings that starts at val ends: in a ground value or in
\* an unbound variable
ChainEnds(s, val) ==
    LET e == ChainEnd(s, val)
    IN e.tag = "Var" => e.x \notin DOMAIN s.values

\* C27 (State::resolve_var follows the whole chain): in every substitution
\* built by assign, resolving a variable whose chain of bindings ends gives
\* the end of the chain, so with x bound to y, y to z and z to 5, x, y and
\* z each resolve to 5; an unbound variable resolves to itself and a
\* ground value to itself.
C27_ResolveVarFollowsChain ==
    /\ \A v \in {x, y, z} :
           /\ ChainEnds(st, v) =>
                  resolve_var(st, v.x) = [ok |-> TRUE, val |-> ChainEnd(st, v)]
           /\ v.x \notin DOMAIN st.values =>
                  resolve_var(st, v.x) = [ok |-> TRUE, val |-> v]
    /\ resolve(st, c5) = [ok |-> TRUE, val |-> c5]
    /\ (DOMAIN st.values = {x.x, y.x, z.x}
            /\ st.values[x.x] = y /\ st.values[y.x] = z /\ st.values[z.x] = c5)
       => \A v \in {x, y, z} : resolve_var(st, v.x).val = c5

\* C27 witness: tests::value_of_nested, x assigned y, y assigned z and z
\* assigned 5; x resolves to 5
C27_Witness ==
    /\ program = <<[var |-> x.x, value |-> y], [var |-> y.x, value |-> z],
                   [var |-> z.x, value |-> c5]>>
    /\ pc = 3
    /\ resolve_var(st, x.x) = [ok |-> TRUE, val |-> c5]

\* variable w lies on a cycle of the substitution: some number of lookups
\* leads from w back to w
OnCycle(s, w) ==
    \E n \in 1..Cardinality(DOMAIN s.values) : Chase(s, Var(w), n) = Var(w)

\* C28 (cycles are detected): in every substitution built by assign, when
\* the chain of bindings from a variable runs into a cycle (v bound to v,
\* v to w and w to v, or a chain that leads into one), State::resolve ends
\* with the error InfiniteRecursion naming a variable that lies on the
\* cycle, and State::unify with that variable as either operand gives the
\* empty stream.
C28_CyclesAreDetected ==
    \A v \in {x, y, z} :
        ~ChainEnds(st, v) =>
            /\ ~resolve(st, v).ok
            /\ resolve(st, v).val.tag = "Var"
            /\ OnCycle(st, resolve(st, v).val.x)
            /\ resolve_var(st, v.x) = resolve(st, v)
            /\ \A b \in {x, y, z, c5} :
                   /\ unify(st, v, b) = <<>>
                   /\ unify(st, b, v) = <<>>

\* C28 witness: x was assigned y and y was assigned x; resolving x is the
\* error that names x, and unify(z, x) gives no state although z is not
\* bound
C28_Witness ==
    /\ program = <<[var |-> x.x, value |-> y], [var |-> y.x, value |-> x]>>
    /\ pc = 2
    /\ resolve(st, x) = [ok |-> FALSE, val |-> x]
    /\ z.x \notin DOMAIN st.values
    /\ unify(st, z, x) = <<>>

\* C28 witness: a variable assigned itself
C28_WitnessSelf ==
    /\ pc = 1
    /\ program = <<[var |-> x.x, value |-> x]>>
    /\ resolve(st, x) = [ok |-> FALSE, val |-> x]

\* every binding of state s is a binding of state t: same variable, same
\* value
KeepsBindings(s, t) ==
    \A v \in Bound(s) : v \in Bound(t) /\ t.values[v] = s.values[v]

\* C29 (bindings are write-once): a goal of the program that gives a state
\* keeps every binding of the state it was applied to, and so does every
\* unify of two values in a reachable state: a variable that the
\* substitution maps to a value is mapped to the same value afterwards.
C29_BindingsWriteOnce ==
    /\ (pc > 0 /\ st.ok) => KeepsBindings(prev, st)
    /\ st.ok =>
          \A a \in Vals, b \in Vals :
              Unify(st, a, b).ok => KeepsBindings(st, Unify(st, a, b))

\* no watch of state s is filed under a variable that s binds
NoneStranded(s) ==
    \A k \in 1..Len(s.watches) : s.watches[k].vars \cap Bound(s) = {}

\* C30 (no stranded watches): in every reachable state, and in every
\* terminal state of the run, each variable under which a watch is filed in
\* the watch index is unbound in the substitution of that state.
C30_NoStrandedWatches ==
    /\ st.ok => NoneStranded(st)
    /\ \A i \in 1..Len(results) : NoneStranded(results[i])

\* the lengths of the sequences that a unify goal of the program gives to
\* the variable v
LengthsGiven(v) ==
    {Len(program[i].b.x) : i \in {k \in 1..Len(program) :
        program[k].kind = "Unify" /\ program[k].a = v /\ IsVec(program[k].b)}}
    \cup {Len(program[i].a.x) : i \in {k \in 1..Len(program) :
        program[k].kind = "Unify" /\ program[k].b = v /\ IsVec(program[k].a)}}

\* the branch count of the disjunction that member becomes: the length of
\* its sequence; a member whose collection is a variable that no unify of
\* the program gives a sequence stays suspended and is no disjunction
MemberBranches(m) ==
    IF m.collection.tag = "Resolved" THEN Len(m.collection.x)
    ELSE IF LengthsGiven(m.collection) = {} THEN 1
    ELSE CHOOSE n \in LengthsGiven(m.collection) :
             \A k \in LengthsGiven(m.collection) : k <= n

\* a branch count n, taken for least when it is below it
AtLeast(n, least) == IF n < least THEN least ELSE n

RECURSIVE BranchProduct(_, _)
RECURSIVE BranchProductAll(_, _)

\* the product of BranchProduct over the goals of a sequence
BranchProductAll(goals, least) ==
    IF goals = <<>> THEN 1
    ELSE BranchProduct(Head(goals), least) * BranchProductAll(Tail(goals), least)

\* the product of the branch counts of the disjunctions of a goal tree,
\* each count taken for least when it is below it
BranchProduct(goal, least) ==
    CASE goal.kind = "Unify" -> 1
      [] goal.kind = "Project" -> 1
      [] goal.kind = "Both" ->
            BranchProduct(goal.a, least) * BranchProduct(goal.b, least)
      [] goal.kind = "All" -> BranchProductAll(goal.goals, least)
      [] goal.kind = "Either" ->
            2 * BranchProduct(goal.a, least) * BranchProduct(goal.b, least)
      [] goal.kind = "Any" ->
            AtLeast(Len(goal.goals), least) * BranchProductAll(goal.goals, least)
      [] goal.kind = "Member" -> AtLeast(MemberBranches(goal), least)

\* C31 as stated: the run of every program ends, and the terminal states
\* it has then collected are at most the product of the branch counts of
\* the disjunctions of its goal trees.
C31_SearchEnds ==
    /\ <>Done
    /\ [](Done => Len(results) <= BranchProductAll(program, 0))

\* C31 (the search ends for finite goals), amended: the run of every
\* program ends, and the terminal states it has then collected are at most
\* the product of the branch counts of the disjunctions of its goal trees
\* that have a branch; a disjunction without a branch gives no state where
\* it is run and takes nothing from the disjunction it is a branch of.
C31_SearchEndsAmended ==
    /\ <>Done
    /\ [](Done => Len(results) <= BranchProductAll(program, 1))

\* C31 witness: the run of a disjunction of two branches and one of three
\* has ended with as many terminal states as the product of the branch
\* counts, six
C31_Witness ==
    /\ Done
    /\ program = <<GEither(GUnify(x, c1), GUnify(x, c2)),
                   GAny(<<GUnify(y, c1), GUnify(y, c2), GUnify(y, c1)>>)>>
    /\ BranchProductAll(program, 1) = 6
    /\ Len(results) = 6

====
